---- MODULE Spec2Model ----
(***************************************************************************)
(* Room-booking API (routes / controller / service / database layers of    *)
(* 66543206038-2_express_routes.js).  A request is handled by one async    *)
(* task; every `await` is a point where other requests may run, so each    *)
(* action below is the code between two awaits.                            *)
(***************************************************************************)
EXTENDS Integers, Sequences, FiniteSets

\* ------------------------------------------------------------------ bounds
NumProcs == 2        \* request slots (concurrently handled requests)
NumRooms == 2        \* rooms 1..NumRooms exist in the rooms table
NumDates == 2        \* calendar days 1..NumDates
MaxTime == 4         \* wall-clock times 1..MaxTime
MaxBookings == 2     \* rows the bookings table may hold
NumUsers == 2        \* authenticated callers 1..NumUsers

Procs == 1..NumProcs
Absent == 0          \* a falsy field of req.body (undefined, "", 0)
ExistingRooms == 1..NumRooms
UnknownRoom == NumRooms + 1
RoomIds == ExistingRooms \cup {UnknownRoom}
Dates == 1..NumDates
Times == 1..MaxTime
Users == 1..NumUsers

\* req.body as the controller destructures it, every field truthy
PresentRequests ==
    [room_id : RoomIds, booking_date : Dates, start_time : Times, end_time : Times]

\* req.body with some of the required fields falsy
Fields == {"room_id", "booking_date", "start_time", "end_time"}
SampleRequest == [room_id |-> 1, booking_date |-> 1, start_time |-> 1, end_time |-> 2]
Blank(r, F) == [f \in Fields |-> IF f \in F THEN Absent ELSE r[f]]
MissingRequests == {Blank(SampleRequest, F) : F \in (SUBSET Fields) \ {{}}}

Requests == PresentRequests \cup MissingRequests
NoReq == [user_id |-> Absent, room_id |-> Absent, booking_date |-> Absent,
          start_time |-> Absent, end_time |-> Absent]
NoBooking == [id |-> Absent]

\* the bookingData the controller hands to the service: req.user.id and the body
BookingData(r, u) ==
    [user_id |-> u, room_id |-> r.room_id, booking_date |-> r.booking_date,
     start_time |-> r.start_time, end_time |-> r.end_time]

VARIABLES
    bookings,      \* the bookings table: row id -> row (id = this.lastID)
    pc,            \* per request slot: the await it is suspended at
    req,           \* per request slot: the request being handled
    overlapping,   \* per request slot: rows returned by findOverlapping
    calls,         \* per request slot: store calls issued so far, in order
    status,        \* per request slot: HTTP status sent (0: none yet)
    error,         \* per request slot: message of the error thrown ("" : none)
    booking        \* per request slot: the record BookingDB.create resolved with

vars == <<bookings, pc, req, overlapping, calls, status, error, booking>>

\* ------------------------------------------------------------ database layer
\* RoomDB.findById: the row of the rooms table, or nothing
RoomFindById(room_id) == room_id \in ExistingRooms

\* the positional parameters db.all binds to the ?s of the SELECT
OverlapParams(room_id, date, start_time, end_time) ==
    <<room_id, date, end_time, start_time,
      end_time, start_time, start_time, end_time>>

\* faulty variants of the WHERE clause
\* only the containment clause is kept
OverlapWhere_ContainedOnly(row, q) ==
    /\ row.room_id = q[1]
    /\ row.booking_date = q[2]
    /\ row.status # "cancelled"
    /\ (row.start_time >= q[7] /\ row.end_time <= q[8])

\* the end-time comparisons are inclusive
OverlapWhere_Inclusive(row, q) ==
    /\ row.room_id = q[1]
    /\ row.booking_date = q[2]
    /\ row.status # "cancelled"
    /\ \/ (row.start_time < q[3] /\ row.end_time >= q[4])
       \/ (row.start_time < q[5] /\ row.end_time >= q[6])
       \/ (row.start_time >= q[7] /\ row.end_time <= q[8])

\* the start-time comparisons against the proposed end are inclusive
OverlapWhere_LeStart(row, q) ==
    /\ row.room_id = q[1]
    /\ row.booking_date = q[2]
    /\ row.status # "cancelled"
    /\ \/ (row.start_time <= q[3] /\ row.end_time > q[4])
       \/ (row.start_time <= q[5] /\ row.end_time > q[6])
       \/ (row.start_time >= q[7] /\ row.end_time <= q[8])

\* the booking_date filter is missing
OverlapWhere_NoDate(row, q) ==
    /\ row.room_id = q[1]
    /\ row.status # "cancelled"
    /\ \/ (row.start_time < q[3] /\ row.end_time > q[4])
       \/ (row.start_time < q[5] /\ row.end_time > q[6])
       \/ (row.start_time >= q[7] /\ row.end_time <= q[8])

\* the status filter is missing
OverlapWhere_NoStatus(row, q) ==
    /\ row.room_id = q[1]
    /\ row.booking_date = q[2]
    /\ \/ (row.start_time < q[3] /\ row.end_time > q[4])
       \/ (row.start_time < q[5] /\ row.end_time > q[6])
       \/ (row.start_time >= q[7] /\ row.end_time <= q[8])

\* the WHERE clause of findOverlapping evaluated on one row
OverlapWhere(row, q) ==
    /\ row.room_id = q[1]
    /\ row.booking_date = q[2]
    /\ row.status # "cancelled"
    /\ \/ (row.start_time < q[3] /\ row.end_time > q[4])
       \/ (row.start_time < q[5] /\ row.end_time > q[6])
       \/ (row.start_time >= q[7] /\ row.end_time <= q[8])

\* BookingDatabase.findOverlapping: ids of the selected rows
findOverlapping(table, room_id, date, start_time, end_time) ==
    {i \in DOMAIN table :
        OverlapWhere(table[i], OverlapParams(room_id, date, start_time, end_time))}

\* the rowid the INSERT assigns: one more than the largest in the table
lastID(table) == Len(table) + 1

\* faulty variant: the id is derived from the number of active rows
create_IdOfActiveCount(table, bookingData) ==
    Append(table,
           [id |-> Cardinality({i \in DOMAIN table :
                                   table[i].status # "cancelled"}) + 1,
            user_id |-> bookingData.user_id,
            room_id |-> bookingData.room_id,
            booking_date |-> bookingData.booking_date,
            start_time |-> bookingData.start_time,
            end_time |-> bookingData.end_time,
            status |-> bookingData.status])

\* BookingDatabase.create: INSERT of bookingData; the new row's id is lastID
create(table, bookingData) ==
    Append(table,
           [id |-> lastID(table),
            user_id |-> bookingData.user_id,
            room_id |-> bookingData.room_id,
            booking_date |-> bookingData.booking_date,
            start_time |-> bookingData.start_time,
            end_time |-> bookingData.end_time,
            status |-> bookingData.status])

\* ------------------------------------------------------------- service layer
\* faulty variant: one overlapping row is tolerated
checkRoomAvailability_OffByOne(rows) == Cardinality(rows) <= 1

\* faulty variant: the result of the query is ignored
checkRoomAvailability_Always(rows) == TRUE

\* BookingService.checkRoomAvailability
checkRoomAvailability(rows) == Cardinality(rows) = 0

\* faulty variant: a zero-length window passes
InvalidTimeRange_Strict(r) == r.start_time > r.end_time

\* faulty variant: the comparison is reversed
InvalidTimeRange_Reversed(r) == r.start_time <= r.end_time

\* the time-order test of BookingService.createBooking
InvalidTimeRange(r) == r.start_time >= r.end_time

\* ---------------------------------------------------------- controller layer
\* faulty variant: end_time is not tested
MissingFields_NoEndTime(r) ==
    \/ r.room_id = Absent
    \/ r.booking_date = Absent
    \/ r.start_time = Absent

\* the required-field test of BookingController.createBooking
MissingFields(r) ==
    \/ r.room_id = Absent
    \/ r.booking_date = Absent
    \/ r.start_time = Absent
    \/ r.end_time = Absent

\* faulty variant: the test of the message is inverted
ErrorStatus_Inverted(message) == IF message # "Room not available" THEN 409 ELSE 500

\* the catch block of BookingController.createBooking
ErrorStatus(message) == IF message = "Room not available" THEN 409 ELSE 500

Respond(p, code, message) ==
    /\ pc' = [pc EXCEPT ![p] = "done"]
    /\ status' = [status EXCEPT ![p] = code]
    /\ error' = [error EXCEPT ![p] = message]

Init ==
    /\ bookings = <<>>
    /\ pc = [p \in Procs |-> "idle"]
    /\ req = [p \in Procs |-> NoReq]
    /\ overlapping = [p \in Procs |-> {}]
    /\ calls = [p \in Procs |-> <<>>]
    /\ status = [p \in Procs |-> 0]
    /\ error = [p \in Procs |-> ""]
    /\ booking = [p \in Procs |-> NoBooking]

\* POST /api/bookings arrives: controller steps 1-3 up to the first await
Submit(p, r, u) ==
    /\ pc[p] = "idle"
    /\ req' = [req EXCEPT ![p] = BookingData(r, u)]
    /\ IF MissingFields(r)
         THEN /\ Respond(p, 400, "Missing required fields")
              /\ UNCHANGED calls
         ELSE /\ pc' = [pc EXCEPT ![p] = "lookup"]
              /\ calls' = [calls EXCEPT ![p] = <<"findById">>]
              /\ UNCHANGED <<status, error>>
    /\ UNCHANGED <<bookings, overlapping, booking>>

\* faulty variant: the result of findById is not tested
Lookup_NoCheck(p) ==
    /\ pc[p] = "lookup"
    /\ pc' = [pc EXCEPT ![p] = "avail"]
    /\ calls' = [calls EXCEPT ![p] = Append(@, "findOverlapping")]
    /\ UNCHANGED <<bookings, req, overlapping, status, error, booking>>

\* RoomDB.findById resolves
Lookup(p) ==
    /\ pc[p] = "lookup"
    /\ IF ~RoomFindById(req[p].room_id)
         THEN /\ Respond(p, ErrorStatus("Room not found"), "Room not found")
              /\ UNCHANGED calls
         ELSE /\ pc' = [pc EXCEPT ![p] = "avail"]
              /\ calls' = [calls EXCEPT ![p] = Append(@, "findOverlapping")]
              /\ UNCHANGED <<status, error>>
    /\ UNCHANGED <<bookings, req, overlapping, booking>>

\* findOverlapping resolves with rows: availability, then the time-order test
Avail(p) ==
    /\ pc[p] = "avail"
    /\ LET r == req[p]
           rows == findOverlapping(bookings, r.room_id, r.booking_date,
                                   r.start_time, r.end_time)
       IN /\ overlapping' = [overlapping EXCEPT ![p] = rows]
          /\ IF ~checkRoomAvailability(rows)
               THEN /\ Respond(p, ErrorStatus("Room not available"),
                               "Room not available")
                    /\ UNCHANGED calls
               ELSE IF InvalidTimeRange(r)
                 THEN /\ Respond(p, ErrorStatus("Invalid time range"),
                                 "Invalid time range")
                      /\ UNCHANGED calls
                 ELSE /\ pc' = [pc EXCEPT ![p] = "insert"]
                      /\ calls' = [calls EXCEPT ![p] = Append(@, "create")]
                      /\ UNCHANGED <<status, error>>
    /\ UNCHANGED <<bookings, req, booking>>

\* findOverlapping rejects (db.all reports err)
AvailFault(p) ==
    /\ pc[p] = "avail"
    /\ Respond(p, ErrorStatus("SQLITE_ERROR"), "SQLITE_ERROR")
    /\ UNCHANGED <<bookings, req, overlapping, calls, booking>>

\* BookingDatabase.create resolves: the row is stored, 201 is sent
Insert(p) ==
    /\ pc[p] = "insert"
    /\ Len(bookings) < MaxBookings
    /\ bookings' = create(bookings,
                          [user_id |-> req[p].user_id,
                           room_id |-> req[p].room_id,
                           booking_date |-> req[p].booking_date,
                           start_time |-> req[p].start_time,
                           end_time |-> req[p].end_time,
                           status |-> "pending"])
    /\ booking' = [booking EXCEPT ![p] = bookings'[Len(bookings')]]
    /\ Respond(p, 201, "")
    /\ UNCHANGED <<req, overlapping, calls>>

\* faulty variant: the row is written although the call reports an error
InsertFault_RowWritten(p) ==
    /\ pc[p] = "insert"
    /\ Len(bookings) < MaxBookings
    /\ bookings' = create(bookings,
                          [user_id |-> req[p].user_id,
                           room_id |-> req[p].room_id,
                           booking_date |-> req[p].booking_date,
                           start_time |-> req[p].start_time,
                           end_time |-> req[p].end_time,
                           status |-> "pending"])
    /\ Respond(p, ErrorStatus("SQLITE_ERROR"), "SQLITE_ERROR")
    /\ UNCHANGED <<req, overlapping, calls, booking>>

\* BookingDatabase.create rejects (db.run reports err): nothing is stored
InsertFault(p) ==
    /\ pc[p] = "insert"
    /\ Respond(p, ErrorStatus("SQLITE_ERROR"), "SQLITE_ERROR")
    /\ UNCHANGED <<bookings, req, overlapping, calls, booking>>

\* the response has been sent; the slot is free for the next request
Return(p) ==
    /\ pc[p] = "done"
    /\ pc' = [pc EXCEPT ![p] = "idle"]
    /\ req' = [req EXCEPT ![p] = NoReq]
    /\ overlapping' = [overlapping EXCEPT ![p] = {}]
    /\ calls' = [calls EXCEPT ![p] = <<>>]
    /\ status' = [status EXCEPT ![p] = 0]
    /\ error' = [error EXCEPT ![p] = ""]
    /\ booking' = [booking EXCEPT ![p] = NoBooking]
    /\ UNCHANGED bookings

\* DELETE /api/bookings/:id : the row's status becomes 'cancelled'
Cancel(id) ==
    /\ id \in DOMAIN bookings
    /\ bookings[id].status # "cancelled"
    /\ bookings' = [bookings EXCEPT ![id].status = "cancelled"]
    /\ UNCHANGED <<pc, req, overlapping, calls, status, error, booking>>

Step(p) ==
    \/ Lookup(p)
    \/ Avail(p)
    \/ AvailFault(p)
    \/ Insert(p)
    \/ InsertFault(p)
    \/ Return(p)

\* createBooking calls one at a time: one request slot, a request starts when
\* the previous one has been answered
SeqSlot == 1
\* the caller of the requests where the caller's identity plays no part
SeqUser == 1

Next ==
    \/ \E r \in Requests : Submit(SeqSlot, r, SeqUser)
    \/ Step(SeqSlot)
    \/ \E id \in 1..MaxBookings : Cancel(id)

Spec == Init /\ [][Next]_vars

\* concurrent requests: every slot takes requests, steps interleave at the awaits
ConcWindows == {<<1, 3>>, <<2, 4>>, <<3, 4>>}
ConcRequests ==
    {r \in PresentRequests :
        /\ r.room_id \in ExistingRooms
        /\ <<r.start_time, r.end_time>> \in ConcWindows}

NextConc ==
    \/ \E p \in Procs : \E r \in ConcRequests : Submit(p, r, SeqUser)
    \/ \E p \in Procs : Step(p)
    \/ \E id \in 1..MaxBookings : Cancel(id)

SpecConc == Init /\ [][NextConc]_vars

\* requests of several callers, one at a time
NextUsers ==
    \/ \E r \in ConcRequests : \E u \in Users : Submit(SeqSlot, r, u)
    \/ Step(SeqSlot)
    \/ \E id \in 1..MaxBookings : Cancel(id)

SpecUsers == Init /\ [][NextUsers]_vars

\* concurrent requests for one room and date, with any pair of times
OneSlotRequests ==
    {r \in PresentRequests : r.room_id = 1 /\ r.booking_date = 1}

NextConcAny ==
    \/ \E p \in Procs : \E r \in OneSlotRequests : Submit(p, r, SeqUser)
    \/ \E p \in Procs : Step(p)
    \/ \E id \in 1..MaxBookings : Cancel(id)

SpecConcAny == Init /\ [][NextConcAny]_vars

\* ------------------------------------------------------------------ claims
Active(row) == row.status # "cancelled"
SameRoomDate(a, b) == a.room_id = b.room_id /\ a.booking_date = b.booking_date
\* the half-open intersection test of two windows
Intersects(a, b) == a.start_time < b.end_time /\ b.start_time < a.end_time
ValidWindows == {w \in Times \X Times : w[1] < w[2]}
Rejected(p, message) == pc[p] = "done" /\ error[p] = message

\* C1: among concurrent createBooking calls with mutually overlapping windows
\* on one room and date at most one is admitted: the table never holds two
\* active rows of the same room and date whose windows intersect.
C1_AtMostOneAdmitted ==
    ~ \E i, j \in DOMAIN bookings :
        /\ i < j
        /\ Active(bookings[i]) /\ Active(bookings[j])
        /\ SameRoomDate(bookings[i], bookings[j])
        /\ Intersects(bookings[i], bookings[j])

\* C2: with createBooking calls run one at a time, no two distinct
\* non-cancelled rows a, b with the same room_id and booking_date have
\* a.start < b.end and b.start < a.end.
C2_NoActiveOverlapSequential ==
    \A a, b \in DOMAIN bookings :
        (/\ a # b
         /\ bookings[a].status # "cancelled" /\ bookings[b].status # "cancelled"
         /\ bookings[a].room_id = bookings[b].room_id
         /\ bookings[a].booking_date = bookings[b].booking_date)
        => ~ (/\ bookings[a].start_time < bookings[b].end_time
              /\ bookings[b].start_time < bookings[a].end_time)

\* two active rows share a room and a date (their windows are disjoint)
C2_Witness ==
    \E a, b \in DOMAIN bookings :
        /\ a # b
        /\ Active(bookings[a]) /\ Active(bookings[b])
        /\ SameRoomDate(bookings[a], bookings[b])

\* C3: for every proposed window (start, end), present in the request, and
\* every room and date, findOverlapping selects exactly the non-cancelled rows
\* of that room and date with row.start < end and start < row.end.
C3_ThreeClauseIsHalfOpen ==
    \A room \in ExistingRooms, date \in Dates, s \in Times, e \in Times :
        findOverlapping(bookings, room, date, s, e)
          = {i \in DOMAIN bookings :
                /\ bookings[i].room_id = room
                /\ bookings[i].booking_date = date
                /\ bookings[i].status # "cancelled"
                /\ bookings[i].start_time < e
                /\ s < bookings[i].end_time}

\* a request was rejected because of a row lying inside its window (the
\* third clause of the WHERE is true of it)
C3_Witness ==
    \E p \in Procs : \E i \in overlapping[p] :
        /\ Rejected(p, "Room not available")
        /\ bookings[i].start_time >= req[p].start_time
        /\ bookings[i].end_time <= req[p].end_time
        /\ bookings[i].start_time > req[p].start_time

\* C4: overlap is symmetric: for a stored row A and any window B the store
\* can hold, on the same room and date, the WHERE clause with A stored and B
\* proposed equals the WHERE clause with B stored and A proposed.
C4_OverlapSymmetric ==
    \A i \in DOMAIN bookings : \A w \in ValidWindows :
        LET A == bookings[i]
            B == [A EXCEPT !.start_time = w[1], !.end_time = w[2]]
        IN Active(A) =>
             (OverlapWhere(A, OverlapParams(A.room_id, A.booking_date,
                                            B.start_time, B.end_time))
              <=> OverlapWhere(B, OverlapParams(B.room_id, B.booking_date,
                                                A.start_time, A.end_time)))

\* two rows of one room and date with intersecting windows have both been
\* stored, the earlier one cancelled before the later one was proposed
C4_Witness ==
    \E i, j \in DOMAIN bookings :
        /\ i < j
        /\ SameRoomDate(bookings[i], bookings[j])
        /\ Intersects(bookings[i], bookings[j])
        /\ bookings[i].start_time # bookings[j].start_time
        /\ ~Active(bookings[i]) /\ Active(bookings[j])

\* C5: back-to-back windows never conflict: a row whose end equals the
\* request's start, or whose start equals the request's end, is never among
\* the rows the availability query returns, and a request is rejected as
\* unavailable only because of some returned row.
Touches(row, r) == row.end_time = r.start_time \/ row.start_time = r.end_time

C5_BackToBackNoConflict ==
    \A p \in Procs :
        /\ \A i \in overlapping[p] : ~Touches(bookings[i], req[p])
        /\ Rejected(p, "Room not available") => overlapping[p] # {}

\* both back-to-back bookings are stored, the later window submitted first
C5_Witness ==
    /\ Len(bookings) = 2
    /\ Active(bookings[1]) /\ Active(bookings[2])
    /\ SameRoomDate(bookings[1], bookings[2])
    /\ bookings[2].end_time = bookings[1].start_time
    /\ \E p \in Procs : pc[p] = "done" /\ status[p] = 201

\* an active row of the request's room and date whose window intersects the
\* request's window
Conflicting(r) ==
    {i \in DOMAIN bookings :
        /\ Active(bookings[i])
        /\ SameRoomDate(bookings[i], r)
        /\ Intersects(bookings[i], r)}

\* C6: when the availability query of a request with start < end returns
\* while an admitted, still active booking of the same room and date
\* intersects its window, the request fails with 'Room not available', issues
\* no insert and leaves the table unchanged.
C6_ConflictRejected ==
    [][\A p \in Procs :
          (Avail(p) /\ ~InvalidTimeRange(req[p]) /\ Conflicting(req[p]) # {})
          => /\ pc'[p] = "done"
             /\ error'[p] = "Room not available"
             /\ calls'[p] = <<"findById", "findOverlapping">>
             /\ bookings' = bookings]_vars

\* a request was rejected because of an active row it partially overlaps
\* (neither window contains the other)
C6_Witness ==
    \E p \in Procs : \E i \in overlapping[p] :
        /\ Rejected(p, "Room not available")
        /\ Active(bookings[i])
        /\ bookings[i].start_time < req[p].start_time
        /\ req[p].start_time < bookings[i].end_time
        /\ bookings[i].end_time < req[p].end_time

\* C7: when the availability query of a request with start < end for an
\* existing room returns and no active booking of the same room AND the same
\* date intersects its window, the request goes on to the insert, whatever
\* rows exist for other dates or other rooms.
C7_OtherDateOrRoomNoConflict ==
    [][\A p \in Procs :
          (Avail(p) /\ ~InvalidTimeRange(req[p]) /\ Conflicting(req[p]) = {})
          => /\ pc'[p] = "insert"
             /\ calls'[p] = <<"findById", "findOverlapping", "create">>]_vars

\* a booking was admitted although an active booking with identical times
\* exists for the same room on another date
C7_Witness ==
    \E p \in Procs :
        /\ pc[p] = "done" /\ status[p] = 201
        /\ Len(bookings) = 2
        /\ Active(bookings[1]) /\ Active(bookings[2])
        /\ bookings[1].room_id = bookings[2].room_id
        /\ bookings[1].booking_date # bookings[2].booking_date
        /\ bookings[1].start_time = bookings[2].start_time
        /\ bookings[1].end_time = bookings[2].end_time
        /\ bookings[2].room_id = req[p].room_id
        /\ bookings[2].booking_date = req[p].booking_date

\* C8: a createBooking with start_time >= end_time (all fields present) that
\* has been answered, other than after a storage fault, failed with
\* 'Invalid time range', whatever room it names and whatever rows exist.
C8_InvalidRangeRejected ==
    \A p \in Procs :
        (/\ pc[p] = "done"
         /\ ~MissingFields(req[p])
         /\ InvalidTimeRange(req[p])
         /\ error[p] # "SQLITE_ERROR")
        => error[p] = "Invalid time range"

\* C9: a request with all fields present whose room lookup returns nothing
\* fails with 'Room not found'; the only store call it ever issues is the
\* room lookup (no availability query, no insert).
C9_RoomNotFound ==
    \A p \in Procs :
        (/\ pc[p] # "idle"
         /\ ~MissingFields(req[p])
         /\ ~RoomFindById(req[p].room_id))
        => /\ pc[p] \in {"lookup", "done"}
           /\ calls[p] = <<"findById">>
           /\ pc[p] = "done" => error[p] = "Room not found"

\* a request with start < end for a room that does not exist was rejected
C9_Witness ==
    \E p \in Procs :
        /\ Rejected(p, "Room not found")
        /\ req[p].room_id = UnknownRoom
        /\ req[p].start_time < req[p].end_time
        /\ bookings # <<>>

\* C10: the response distinguishes the error kinds: missing fields and
\* invalid time range are answered as client-input errors (400), room not
\* found as not found (404), room unavailable as a conflict (409), a storage
\* fault as an internal error (500).
C10_ErrorKindsDistinguished ==
    \A p \in Procs :
        pc[p] = "done" =>
            /\ error[p] \in {"Missing required fields", "Invalid time range"}
                 => status[p] = 400
            /\ error[p] = "Room not found" => status[p] = 404
            /\ error[p] = "Room not available" => status[p] = 409
            /\ error[p] = "SQLITE_ERROR" => status[p] = 500

\* C11: a createBooking call changes the table only in the step that ends it
\* with success: every step of a request that is not its successful insert
\* (arrival, room lookup, availability query, a failing query, a failing
\* insert, any rejection) leaves the bookings table exactly as it was.
C11_FailureLeavesStore ==
    [][\A p \in Procs :
          (pc'[p] # pc[p] /\ ~(pc[p] = "insert" /\ status'[p] = 201))
          => bookings' = bookings]_vars

\* a call failed at its insert while the table already held a booking
C11_Witness ==
    \E p \in Procs :
        /\ Rejected(p, "SQLITE_ERROR")
        /\ calls[p] = <<"findById", "findOverlapping", "create">>
        /\ Len(bookings) = 1

\* C12: when the room exists, start < end and no active booking of the room
\* and date intersects the window, the request goes on to the insert; the
\* insert stores exactly one new row, with status 'pending' and the request's
\* room, date, start, end and requester, leaves the other rows as they were,
\* and returns that row with an id different from every other stored row's.
C12_SuccessStoresOnePending ==
    [][\A p \in Procs :
          /\ (/\ Avail(p)
              /\ RoomFindById(req[p].room_id)
              /\ ~InvalidTimeRange(req[p])
              /\ Conflicting(req[p]) = {})
             => pc'[p] = "insert"
          /\ Insert(p) =>
               LET n == Len(bookings')
               IN /\ n = Len(bookings) + 1
                  /\ \A j \in 1..(n - 1) :
                        /\ bookings'[j] = bookings[j]
                        /\ bookings'[j].id # booking'[p].id
                  /\ bookings'[n].status = "pending"
                  /\ bookings'[n].user_id = req[p].user_id
                  /\ bookings'[n].room_id = req[p].room_id
                  /\ bookings'[n].booking_date = req[p].booking_date
                  /\ bookings'[n].start_time = req[p].start_time
                  /\ bookings'[n].end_time = req[p].end_time
                  /\ booking'[p] = bookings'[n]
                  /\ status'[p] = 201]_vars

\* a second caller's booking was stored and returned after the first
\* caller's booking of the same room and date had been cancelled
C12_Witness ==
    \E p \in Procs :
        /\ pc[p] = "done" /\ status[p] = 201
        /\ Len(bookings) = 2
        /\ booking[p] = bookings[2]
        /\ bookings[2].status = "pending"
        /\ bookings[1].status = "cancelled"
        /\ bookings[1].user_id # bookings[2].user_id
        /\ SameRoomDate(bookings[1], bookings[2])

\* C13: cancelled bookings do not count toward the availability check: the
\* availability query never returns a cancelled row, so a request whose
\* window intersects only cancelled bookings of its room and date goes on to
\* the insert; and a cancelled row stays in the table, unchanged.
C13_CancelledDoNotCount ==
    [][/\ \A p \in Procs :
            Avail(p) =>
              /\ \A i \in overlapping'[p] : bookings[i].status # "cancelled"
              /\ (/\ ~InvalidTimeRange(req[p])
                  /\ \A i \in DOMAIN bookings :
                        (SameRoomDate(bookings[i], req[p])
                         /\ Intersects(bookings[i], req[p]))
                        => bookings[i].status = "cancelled")
                 => pc'[p] = "insert"
       /\ \A i \in DOMAIN bookings :
            bookings[i].status = "cancelled"
            => (i \in DOMAIN bookings' /\ bookings'[i] = bookings[i])]_vars

\* after the first booking was cancelled, a request for a window that
\* partially overlaps it was admitted; the cancelled row is still stored
C13_Witness ==
    \E p \in Procs :
        /\ pc[p] = "done" /\ status[p] = 201
        /\ Len(bookings) = 2
        /\ booking[p] = bookings[2]
        /\ bookings[1].status = "cancelled"
        /\ SameRoomDate(bookings[1], bookings[2])
        /\ bookings[1].start_time < bookings[2].start_time
        /\ bookings[2].start_time < bookings[1].end_time
        /\ bookings[1].end_time < bookings[2].end_time

\* C14: a request in which any of room_id, booking_date, start_time or
\* end_time is absent is answered 400 'Missing required fields' on arrival;
\* it never issues a store call (no room lookup, no availability query, no
\* insert).
AnyAbsent(r) ==
    \E f \in Fields : r[f] = Absent

C14_MissingFieldsRejected ==
    \A p \in Procs :
        (pc[p] # "idle" /\ AnyAbsent(req[p]))
        => /\ pc[p] = "done"
           /\ status[p] = 400
           /\ error[p] = "Missing required fields"
           /\ calls[p] = <<>>
           /\ booking[p] = NoBooking

\* a request lacking only its end_time was rejected while a booking is stored
C14_Witness ==
    \E p \in Procs :
        /\ Rejected(p, "Missing required fields")
        /\ req[p].end_time = Absent
        /\ req[p].room_id # Absent
        /\ req[p].booking_date # Absent
        /\ req[p].start_time # Absent
        /\ bookings # <<>>

\* C15: in every reachable state, under any interleaving of createBooking
\* calls, every stored booking has start_time < end_time strictly.
C15_StoredWindowsOrdered ==
    \A i \in DOMAIN bookings : bookings[i].start_time < bookings[i].end_time

\* while one call was admitted, a concurrent call with start_time >= end_time
\* that passed the availability check was rejected by the time-order test
C15_Witness ==
    \E p, q \in Procs :
        /\ p # q
        /\ Rejected(p, "Invalid time range")
        /\ overlapping[p] = {}
        /\ pc[q] = "done" /\ status[q] = 201
        /\ bookings # <<>>

\* C16: within one createBooking call the store calls are issued in the order
\* room lookup, availability query, insert, each at most once; the insert is
\* issued only when the lookup returned a room and the availability query
\* returned no row; an answered call issues nothing further.
CallOrder == <<"findById", "findOverlapping", "create">>

C16_StepsOrdered ==
    \A p \in Procs :
        /\ \E n \in 0..3 : calls[p] = SubSeq(CallOrder, 1, n)
        /\ Len(calls[p]) = 3
             => /\ RoomFindById(req[p].room_id)
                /\ overlapping[p] = {}
                /\ pc[p] \in {"insert", "done"}
        /\ pc[p] = "insert" => Len(calls[p]) = 3
        /\ pc[p] = "avail" => Len(calls[p]) = 2
        /\ pc[p] = "lookup" => Len(calls[p]) = 1
        /\ (pc[p] = "done" /\ status[p] = 201) => Len(calls[p]) = 3

\* a call was answered 201 after its three store calls, in a table that
\* already held another booking of the same room and date
C16_Witness ==
    \E p \in Procs :
        /\ pc[p] = "done" /\ status[p] = 201
        /\ calls[p] = CallOrder
        /\ Len(bookings) = 2
        /\ Active(bookings[1])
        /\ SameRoomDate(bookings[1], bookings[2])

\* C17: a storage fault is passed through: when the availability query fails
\* the call fails with the store's error and no insert is issued; when the
\* insert fails the call fails with the store's error and no row is stored;
\* in both cases the caller is answered 500, not 201 and not 409.
C17_StorageFaultPassedThrough ==
    [][\A p \in Procs :
          /\ AvailFault(p)
               => /\ pc'[p] = "done"
                  /\ error'[p] = "SQLITE_ERROR"
                  /\ status'[p] = 500
                  /\ calls'[p] = <<"findById", "findOverlapping">>
                  /\ bookings' = bookings
          /\ InsertFault(p)
               => /\ pc'[p] = "done"
                  /\ error'[p] = "SQLITE_ERROR"
                  /\ status'[p] = 500
                  /\ booking'[p] = NoBooking
                  /\ bookings' = bookings]_vars

\* a call whose availability query failed was answered 500 although a
\* booking intersecting its window is stored
C17_Witness ==
    \E p \in Procs :
        /\ Rejected(p, "SQLITE_ERROR")
        /\ status[p] = 500
        /\ calls[p] = <<"findById", "findOverlapping">>
        /\ Conflicting(req[p]) # {}

\* the admission pipeline in the order of the specification: time order, then
\* room existence, then availability by the half-open test
SpecOrderOutcome(table, r) ==
    IF ~(r.start_time < r.end_time) THEN "Invalid time range"
    ELSE IF r.room_id \notin ExistingRooms THEN "Room not found"
    ELSE IF \E i \in DOMAIN table :
               /\ table[i].status \in {"pending", "confirmed"}
               /\ table[i].room_id = r.room_id
               /\ table[i].booking_date = r.booking_date
               /\ table[i].start_time < r.end_time
               /\ r.start_time < table[i].end_time
         THEN "Room not available"
    ELSE "admitted"

SpecOrderInsert(table, r) ==
    Append(table, [id |-> Len(table) + 1, user_id |-> r.user_id,
                   room_id |-> r.room_id, booking_date |-> r.booking_date,
                   start_time |-> r.start_time, end_time |-> r.end_time,
                   status |-> "pending"])

\* C18: the code's order of checks (room, availability, time order) admits
\* exactly the requests the specification's order (time order, room,
\* availability) admits from the same table: a request the code rejects at
\* the room lookup or after the availability query is rejected by the
\* specification's pipeline too, a request reaches the insert exactly when
\* the specification's pipeline admits it, and the insert stores the row that
\* pipeline stores; only the error reported may differ.
C18_CheckOrderEquivalent ==
    [][\A p \in Procs :
          /\ (Lookup(p) /\ pc'[p] = "done")
               => SpecOrderOutcome(bookings, req[p]) # "admitted"
          /\ Avail(p)
               => (pc'[p] = "insert"
                   <=> SpecOrderOutcome(bookings, req[p]) = "admitted")
          /\ Insert(p)
               => /\ SpecOrderOutcome(bookings, req[p]) = "admitted"
                  /\ bookings' = SpecOrderInsert(bookings, req[p])]_vars

\* a request was rejected by both pipelines with different errors: the code
\* reported the conflict, the specification's order the invalid time range
C18_Witness ==
    \E p \in Procs :
        /\ Rejected(p, "Room not available")
        /\ \A i \in overlapping[p] : Active(bookings[i])
        /\ SpecOrderOutcome(bookings, req[p]) = "Invalid time range"

\* C19: concurrent calls cause no false rejection: under any interleaving,
\* when the availability query of a call with start < end for an existing
\* room returns, the call is rejected as unavailable exactly when the table
\* then holds a non-cancelled booking of the same room and date whose window
\* intersects its window, the rows blamed are exactly those bookings, and
\* otherwise the call goes on to the insert.
C19_NoFalseRejection ==
    [][\A p \in Procs :
          (Avail(p) /\ ~InvalidTimeRange(req[p]))
          => /\ overlapping'[p] = Conflicting(req[p])
             /\ error'[p] = "Room not available" <=> Conflicting(req[p]) # {}
             /\ pc'[p] = "insert" <=> Conflicting(req[p]) = {}]_vars

\* two calls in flight together for back-to-back windows of one room and date
\* have both passed the availability check, while a booking with a window
\* intersecting both is stored for another date or another room
C19_Witness ==
    \E p, q \in Procs :
        /\ p # q
        /\ pc[p] = "insert" /\ pc[q] = "insert"
        /\ SameRoomDate(req[p], req[q])
        /\ req[p].end_time = req[q].start_time
        /\ \E i \in DOMAIN bookings :
              /\ Active(bookings[i])
              /\ ~SameRoomDate(bookings[i], req[p])
              /\ Intersects(bookings[i], req[p])
              /\ Intersects(bookings[i], req[q])

====
